---- MODULE Spec2Model ----
(***************************************************************************)
(* Model of tasks_odoo_live.py: the saved-filter composition of main, the  *)
(* schedule grouping and per-owner sort, the text rendering of schedule    *)
(* and recap records, and the recap grouping with its allow-set.           *)
(*                                                                         *)
(* Python values are records with a fixed set of fields so that values of  *)
(* different Python types can be compared.                                 *)
(***************************************************************************)
EXTENDS Integers, Sequences, FiniteSets, TLC

VARIABLES
    pc,                   \* position inside main
    selected_favs,        \* st.multiselect result: sequence of favourite names
    fav_domains,          \* list built by the loop of lines 320-326
    combined_fav_domain,  \* result of combine_domains_or (line 327)
    final_domain,         \* line 332
    tasks,                \* result of get_tasks (line 333)
    tasks_by_designer,    \* ordered dict: sequence of [key, items]
    task,                 \* argument of build_morning_text
    subtask_map,          \* argument of build_morning_text
    lines,                \* lines produced by build_morning_text / build_recap_notes_text
    recs,                 \* result of get_recaps (line 385)
    allowed_emp_names,    \* line 378
    recs_by_designer,     \* ordered dict: sequence of [key, items]
    rec                   \* argument of build_recap_notes_text

vars == <<pc, selected_favs, fav_domains, combined_fav_domain, final_domain,
          tasks, tasks_by_designer, task, subtask_map, lines,
          recs, allowed_emp_names, recs_by_designer, rec>>

filterVars == <<selected_favs, fav_domains, combined_fav_domain, final_domain>>
scheduleVars == <<tasks, tasks_by_designer>>
renderVars == <<task, subtask_map, lines>>
recapVars == <<recs, allowed_emp_names, recs_by_designer, rec>>

\* Value of a variable that the part of main under study does not touch.
Idle == "idle"

(***************************************************************************)
(* Bounds                                                                  *)
(***************************************************************************)
MaxFavs == 3      \* number of favourites selected in the multiselect
MaxTasks == 3     \* number of records returned by get_tasks
MaxRecs == 3      \* number of records returned by get_recaps

(***************************************************************************)
(* Python literals as produced by ast.literal_eval                         *)
(*   kind : "list", "tuple", "int", "str", "dict"                          *)
(*   toks : the elements of a list or tuple (domain tokens)                *)
(*   nz   : truth value of a scalar or mapping                             *)
(***************************************************************************)
PyList(toks) == [kind |-> "list", toks |-> toks, nz |-> toks # <<>>]
PyTuple(toks) == [kind |-> "tuple", toks |-> toks, nz |-> toks # <<>>]
PyScalar(kind, nz) == [kind |-> kind, toks |-> <<>>, nz |-> nz]

\* bool(v): sequences are true when non-empty, scalars and mappings by value
Truthy(v) == IF v.kind \in {"list", "tuple"} THEN v.toks # <<>> ELSE v.nz

\* A saved-filter text: whether literal_eval accepts it and the literal it denotes
Text(syntax, value) == [syntax |-> syntax, value |-> value]

\* ir.filters records returned by get_planning_favorites (name, domain)
all_favs ==
    << [name |-> "A",    domain |-> Text("ok", PyList(<<"a">>))],
       [name |-> "B",    domain |-> Text("ok", PyList(<<"b">>))],
       [name |-> "BC",   domain |-> Text("ok", PyList(<<"b", "c">>))],
       [name |-> "AorC", domain |-> Text("ok", PyList(<<"|", "a", "c">>))],
       [name |-> "None", domain |-> Text("ok", PyList(<<>>))],
       [name |-> "Bad",  domain |-> Text("bad", PyList(<<>>))],
       [name |-> "Int",  domain |-> Text("ok", PyScalar("int", TRUE))],
       [name |-> "Str",  domain |-> Text("ok", PyScalar("str", TRUE))],
       [name |-> "Tup",  domain |-> Text("ok", PyTuple(<<"a">>))],
       [name |-> "Half", domain |-> Text("ok", PyList(<<"|", "a">>))] >>

fav_names == {all_favs[i].name : i \in 1..Len(all_favs)}

\* Sequences of pairwise different elements of S, of length at most n
RECURSIVE DistinctSeqs(_, _)
DistinctSeqs(S, n) ==
    IF n = 0 THEN {<<>>}
    ELSE LET shorter == DistinctSeqs(S, n - 1)
         IN shorter \cup
            {Append(s, x) : <<s, x>> \in
                {p \in shorter \X S :
                    /\ Len(p[1]) = n - 1
                    /\ \A i \in 1..Len(p[1]) : p[1][i] # p[2]}}

(***************************************************************************)
(* parse_domain, lines 37-41                                               *)
(***************************************************************************)
parse_domain(domain_string) ==
    IF domain_string.syntax = "ok" THEN domain_string.value ELSE PyList(<<>>)

\* next((x for x in all_favs if x["name"] == fav), None), line 322
FavRecord(fav) ==
    LET hits == {i \in 1..Len(all_favs) : all_favs[i].name = fav}
    IN all_favs[CHOOSE i \in hits : \A j \in hits : i <= j]

\* The loop of lines 320-326: parse each selected favourite, keep the truthy ones
RECURSIVE CollectFavDomains(_)
CollectFavDomains(favs) ==
    IF favs = <<>> THEN <<>>
    ELSE LET d == parse_domain(FavRecord(Head(favs)).domain)
             rest == CollectFavDomains(Tail(favs))
         IN IF Truthy(d) THEN <<d>> \o rest ELSE rest

(***************************************************************************)
(* combine_domains_or, lines 43-49                                         *)
(* A result is [raised, val]: list + non-list raises TypeError.            *)
(***************************************************************************)
Returned(v) == [raised |-> FALSE, val |-> v]
Raised == [raised |-> TRUE, val |-> PyList(<<>>)]

\* A combine step that puts the OR token between its operands
OrStepInfix(combined, d) ==
    IF combined.kind = "list" /\ d.kind = "list"
    THEN Returned(PyList(combined.toks \o <<"|">> \o d.toks))
    ELSE Raised

\* ['|'] + combined + d, line 48
OrStep(combined, d) ==
    IF combined.kind = "list" /\ d.kind = "list"
    THEN Returned(PyList(<<"|">> \o combined.toks \o d.toks))
    ELSE Raised

RECURSIVE OrFold(_, _)
OrFold(combined, rest) ==
    IF rest = <<>> THEN Returned(combined)
    ELSE LET step == OrStep(combined, Head(rest))
         IN IF step.raised THEN Raised ELSE OrFold(step.val, Tail(rest))

combine_domains_or(domains_list) ==
    IF domains_list = <<>> THEN Returned(PyList(<<>>))
    ELSE OrFold(Head(domains_list), Tail(domains_list))

\* lines 328-331
date_domain == <<"ge", "le">>

\* line 332
FinalDomain(combined) ==
    IF Truthy(combined)
    THEN IF combined.kind = "list"
         THEN Returned(PyList(<<"&">> \o date_domain \o combined.toks))
         ELSE Raised
    ELSE Returned(PyList(date_domain))

(***************************************************************************)
(* The schedule branch of main up to the fetch, lines 319-333              *)
(***************************************************************************)
InitFilter ==
    /\ pc = "parse"
    /\ selected_favs \in DistinctSeqs(fav_names, MaxFavs)
    /\ fav_domains = <<>>
    /\ combined_fav_domain = PyList(<<>>)
    /\ final_domain = PyList(<<>>)
    /\ tasks = Idle /\ tasks_by_designer = Idle
    /\ task = Idle /\ subtask_map = Idle /\ lines = Idle
    /\ recs = Idle /\ allowed_emp_names = Idle /\ recs_by_designer = Idle
    /\ rec = Idle

ParseFavs ==
    /\ pc = "parse"
    /\ fav_domains' = CollectFavDomains(selected_favs)
    /\ pc' = "combine"
    /\ UNCHANGED <<selected_favs, combined_fav_domain, final_domain>>
    /\ UNCHANGED <<scheduleVars, renderVars, recapVars>>

CombineFavs ==
    /\ pc = "combine"
    /\ LET r == combine_domains_or(fav_domains)
       IN /\ pc' = IF r.raised THEN "raised" ELSE "final"
          /\ combined_fav_domain' = IF r.raised THEN combined_fav_domain ELSE r.val
    /\ UNCHANGED <<selected_favs, fav_domains, final_domain>>
    /\ UNCHANGED <<scheduleVars, renderVars, recapVars>>

BuildFinalDomain ==
    /\ pc = "final"
    /\ LET r == FinalDomain(combined_fav_domain)
       IN /\ pc' = IF r.raised THEN "raised" ELSE "fetch"
          /\ final_domain' = IF r.raised THEN final_domain ELSE r.val
    /\ UNCHANGED <<selected_favs, fav_domains, combined_fav_domain>>
    /\ UNCHANGED <<scheduleVars, renderVars, recapVars>>

NextFilter == ParseFavs \/ CombineFavs \/ BuildFinalDomain

SpecFilter == InitFilter /\ [][NextFilter]_vars

(***************************************************************************)
(* The backend's prefix grammar: a combinator token joins the two          *)
(* expressions that follow it, every other token is a leaf, and the        *)
(* top-level expressions of one sequence denote their conjunction.         *)
(* A record is the set of the leaves it satisfies.                         *)
(***************************************************************************)
Combinators == {"|", "&"}
Leaves == {"a", "b", "c", "ge", "le"}

\* The expression starting at toks[i]: whether it is complete, its value on
\* the record, and the index after it
RECURSIVE PrefixExpr(_, _, _)
PrefixExpr(toks, i, record) ==
    IF i > Len(toks) THEN [ok |-> FALSE, val |-> FALSE, next |-> i]
    ELSE IF toks[i] \in Combinators
    THEN LET l == PrefixExpr(toks, i + 1, record)
             r == PrefixExpr(toks, l.next, record)
         IN [ok |-> l.ok /\ r.ok,
             val |-> IF toks[i] = "|" THEN l.val \/ r.val ELSE l.val /\ r.val,
             next |-> r.next]
    ELSE [ok |-> TRUE, val |-> toks[i] \in record, next |-> i + 1]

RECURSIVE PrefixSeq(_, _, _)
PrefixSeq(toks, i, record) ==
    IF i > Len(toks) THEN [ok |-> TRUE, val |-> TRUE]
    ELSE LET e == PrefixExpr(toks, i, record)
         IN IF ~e.ok THEN [ok |-> FALSE, val |-> FALSE]
            ELSE LET rest == PrefixSeq(toks, e.next, record)
                 IN [ok |-> rest.ok, val |-> e.val /\ rest.val]

\* Every combinator token is followed by exactly two well-formed operands
WellFormed(toks) == PrefixSeq(toks, 1, {}).ok
Matches(toks, record) == PrefixSeq(toks, 1, record).val

IsPredicate(v) == v.kind = "list" /\ WellFormed(v.toks)
AllLists(ds) == \A i \in 1..Len(ds) : ds[i].kind = "list"

RECURSIVE ConcatToks(_)
ConcatToks(ds) == IF ds = <<>> THEN <<>> ELSE Head(ds).toks \o ConcatToks(Tail(ds))

OrTokens(n) == [i \in 1..n |-> "|"]

(***************************************************************************)
(* C5: combine_domains_or on predicate lists gives the empty predicate for *)
(* no input, the predicate itself for one input, and for N > 1 inputs N-1  *)
(* OR tokens followed by the inputs' tokens in input order (the prefix     *)
(* form of the left fold OR(OR(t1,t2),t3)); it never raises on lists.      *)
(***************************************************************************)
C5_CombineOrLeftFold ==
    AllLists(fav_domains) =>
        /\ pc # "raised"
        /\ pc \in {"final", "fetch"} =>
            /\ fav_domains = <<>> => combined_fav_domain = PyList(<<>>)
            /\ Len(fav_domains) = 1 => combined_fav_domain = fav_domains[1]
            /\ Len(fav_domains) > 1 =>
                 combined_fav_domain =
                     PyList(OrTokens(Len(fav_domains) - 1) \o ConcatToks(fav_domains))

\* Three predicate lists were combined: two OR tokens lead the result
C5_Witness ==
    /\ pc = "final"
    /\ Len(fav_domains) = 3
    /\ AllLists(fav_domains)
    /\ SubSeq(combined_fav_domain.toks, 1, 2) = <<"|", "|">>
    /\ Len(combined_fav_domain.toks) > 4

(***************************************************************************)
(* C9: malformed saved-filter text never propagates a failure: a text that *)
(* does not parse, parses to a non-sequence literal, or has a combinator   *)
(* without two operands, counts as the empty predicate, so that building   *)
(* the combined and the final predicate never raises and the final         *)
(* predicate is well formed.                                               *)
(***************************************************************************)
C9_MalformedFilterIsEmptyPredicate ==
    /\ pc # "raised"
    /\ pc = "fetch" =>
         /\ \A i \in 1..Len(fav_domains) : IsPredicate(fav_domains[i])
         /\ IsPredicate(final_domain)

(***************************************************************************)
(* C10: for well-formed selected filters, a record matches final_domain    *)
(* iff its start lies in the window and either no non-empty filter was     *)
(* selected or at least one selected filter matches the record on its own. *)
(***************************************************************************)
SelectedWellFormed ==
    \A i \in 1..Len(selected_favs) :
        LET t == FavRecord(selected_favs[i]).domain
        IN t.syntax = "ok" /\ IsPredicate(t.value)

C10_FinalDomainIsWindowAndAnyFilter ==
    (pc = "fetch" /\ SelectedWellFormed) =>
        \A record \in SUBSET Leaves :
            Matches(final_domain.toks, record) <=>
                /\ "ge" \in record
                /\ "le" \in record
                /\ \/ fav_domains = <<>>
                   \/ \E i \in 1..Len(fav_domains) : Matches(fav_domains[i].toks, record)

(***************************************************************************)
(* Field values of fetched records                                         *)
(*                                                                         *)
(* A relation field is absent from the mapping, False (the backend's       *)
(* null), a list of 0, 1 or 2 elements, or a plain string.                 *)
(***************************************************************************)
RelAbsent == [kind |-> "absent", id |-> 0, label |-> ""]
RelFalse == [kind |-> "false", id |-> 0, label |-> ""]
RelList0 == [kind |-> "list0", id |-> 0, label |-> ""]
RelList1(id) == [kind |-> "list1", id |-> id, label |-> ""]
Rel(id, label) == [kind |-> "list2", id |-> id, label |-> label]
RelStr(s) == [kind |-> "str", id |-> 0, label |-> s]

\* get_field_name, lines 51-54
get_field_name(many2one_val) ==
    IF many2one_val.kind = "list2" THEN many2one_val.label ELSE ""

(***************************************************************************)
(* Timestamp strings.  A string is empty, free text, or six numeric fields *)
(* laid out as %Y-%m-%d %H:%M:%S; the fields need not denote a real date.  *)
(* A timestamp field of a record is absent, False, or a string.            *)
(***************************************************************************)
EmptyStr == [form |-> "empty", y |-> 0, mo |-> 0, d |-> 0, h |-> 0, mi |-> 0, s |-> 0]
TextStr == [form |-> "text", y |-> 0, mo |-> 0, d |-> 0, h |-> 0, mi |-> 0, s |-> 0]
Ts(y, mo, d, h, mi, s) ==
    [form |-> "ts", y |-> y, mo |-> mo, d |-> d, h |-> h, mi |-> mi, s |-> s]

DtAbsent == [kind |-> "absent", str |-> EmptyStr]
DtFalse == [kind |-> "false", str |-> EmptyStr]
DtStr(str) == [kind |-> "str", str |-> str]

IsLeap(y) == (y % 4 = 0 /\ y % 100 # 0) \/ y % 400 = 0
DaysInMonth(y, mo) ==
    IF mo = 2 THEN (IF IsLeap(y) THEN 29 ELSE 28)
    ELSE IF mo \in {4, 6, 9, 11} THEN 30 ELSE 31

\* datetime.strptime(str, "%Y-%m-%d %H:%M:%S"): ValueError unless the string
\* has the layout and its fields denote a date and a time of day
Parses(str) ==
    /\ str.form = "ts"
    /\ str.y \in 1..9999
    /\ str.mo \in 1..12
    /\ str.d \in 1..DaysInMonth(str.y, str.mo)
    /\ str.h \in 0..23
    /\ str.mi \in 0..59
    /\ str.s \in 0..59

\* Position of a parsed timestamp in time order: its day and its second of
\* the day, compared in that order
Ordinal(dt) ==
    [day |-> (dt.y * 12 + dt.mo) * 31 + dt.d,
     sec |-> (dt.h * 60 + dt.mi) * 60 + dt.s]

Before(k1, k2) == k1.day < k2.day \/ (k1.day = k2.day /\ k1.sec < k2.sec)
NotAfter(k1, k2) == k1 = k2 \/ Before(k1, k2)

\* The default of t.get('start_datetime', ...), lines 192 and 345
EpochStr == Ts(1970, 1, 1, 0, 0, 0)

(***************************************************************************)
(* Grouping by designer, lines 337-341                                     *)
(* A dict is a sequence of [key, items] in insertion order.                *)
(***************************************************************************)
KeyIndex(dict, key) ==
    LET hits == {i \in 1..Len(dict) : dict[i].key = key}
    IN IF hits = {} THEN 0 ELSE CHOOSE i \in hits : TRUE

\* A grouping step that replaces the group instead of appending to it
SetDefaultOverwrite(dict, key, t) ==
    LET i == KeyIndex(dict, key)
    IN IF i = 0 THEN Append(dict, [key |-> key, items |-> <<t>>])
       ELSE [dict EXCEPT ![i].items = <<t>>]

\* dict.setdefault(key, []).append(t)
SetDefaultAppend(dict, key, t) ==
    LET i == KeyIndex(dict, key)
    IN IF i = 0 THEN Append(dict, [key |-> key, items |-> <<t>>])
       ELSE [dict EXCEPT ![i].items = Append(@, t)]

\* line 340
Designer(res) == IF res.kind = "list2" THEN res.label ELSE "Unassigned"

RECURSIVE GroupTasks(_, _)
GroupTasks(dict, ts) ==
    IF ts = <<>> THEN dict
    ELSE GroupTasks(SetDefaultAppend(dict, Designer(Head(ts).resource_id), Head(ts)),
                    Tail(ts))

(***************************************************************************)
(* Per-designer sort, lines 342-348 and 190-194                            *)
(***************************************************************************)
\* The sort key of line 345: absent key -> the epoch default; strptime raises
\* TypeError on False and ValueError on a string it cannot parse
SortKeyRaises(t) ==
    /\ t.start_datetime.kind # "absent"
    /\ \/ t.start_datetime.kind = "false"
       \/ ~Parses(t.start_datetime.str)

SortKey(t) ==
    IF t.start_datetime.kind = "absent" THEN Ordinal(EpochStr)
    ELSE Ordinal(t.start_datetime.str)

\* An insertion that puts a record before the records with an equal key
RECURSIVE InsertBeforeEqual(_, _)
InsertBeforeEqual(sorted, t) ==
    IF sorted = <<>> THEN <<t>>
    ELSE IF Before(SortKey(Head(sorted)), SortKey(t))
    THEN <<Head(sorted)>> \o InsertBeforeEqual(Tail(sorted), t)
    ELSE <<t>> \o sorted

\* Insertion after every record whose key is not greater: list.sort is stable
RECURSIVE InsertSorted(_, _)
InsertSorted(sorted, t) ==
    IF sorted = <<>> THEN <<t>>
    ELSE IF NotAfter(SortKey(Head(sorted)), SortKey(t))
    THEN <<Head(sorted)>> \o InsertSorted(Tail(sorted), t)
    ELSE <<t>> \o sorted

RECURSIVE SortedBy(_, _)
SortedBy(done, todo) ==
    IF todo = <<>> THEN done
    ELSE SortedBy(InsertSorted(done, Head(todo)), Tail(todo))

\* try: items.sort(key=...) except Exception: pass
\* list.sort computes every key before it moves anything, so a raising key
\* leaves the list as it was
SortGroup(items) ==
    IF \E i \in 1..Len(items) : SortKeyRaises(items[i]) THEN items
    ELSE SortedBy(<<>>, items)

SortAll(dict) == [g \in 1..Len(dict) |-> [dict[g] EXCEPT !.items = SortGroup(@)]]

(***************************************************************************)
(* The schedule branch of main after the fetch, lines 334-356              *)
(***************************************************************************)
OwnerValues == {RelFalse, Rel(1, "Alice"), Rel(3, ""), RelList1(4)}
StartValues ==
    {DtAbsent, DtFalse, DtStr(TextStr),
     DtStr(Ts(2024, 1, 1, 9, 0, 0)), DtStr(Ts(2024, 1, 1, 8, 0, 0))}

\* Records as fetched: the backend gives every record its own id
FetchedTasks ==
    UNION {[1..n -> OwnerValues \X StartValues] : n \in 1..MaxTasks}

TaskRecords(f) ==
    [i \in 1..Len(f) |-> [id |-> i, resource_id |-> f[i][1], start_datetime |-> f[i][2]]]

InitSchedule ==
    /\ pc = "group"
    /\ \E f \in FetchedTasks : tasks = TaskRecords(f)
    /\ tasks_by_designer = <<>>
    /\ selected_favs = Idle /\ fav_domains = Idle
    /\ combined_fav_domain = Idle /\ final_domain = Idle
    /\ task = Idle /\ subtask_map = Idle /\ lines = Idle
    /\ recs = Idle /\ allowed_emp_names = Idle /\ recs_by_designer = Idle
    /\ rec = Idle

\* lines 337-341
GroupByDesigner ==
    /\ pc = "group"
    /\ tasks_by_designer' = GroupTasks(<<>>, tasks)
    /\ pc' = "sort"
    /\ UNCHANGED <<tasks, filterVars, renderVars, recapVars>>

\* lines 342-348
SortByStart ==
    /\ pc = "sort"
    /\ tasks_by_designer' = SortAll(tasks_by_designer)
    /\ pc' = "table"
    /\ UNCHANGED <<tasks, filterVars, renderVars, recapVars>>

\* create_morning_table sorts every group once more, lines 190-194
SortInTable ==
    /\ pc = "table"
    /\ tasks_by_designer' = SortAll(tasks_by_designer)
    /\ pc' = "done"
    /\ UNCHANGED <<tasks, filterVars, renderVars, recapVars>>

NextSchedule == GroupByDesigner \/ SortByStart \/ SortInTable

SpecSchedule == InitSchedule /\ [][NextSchedule]_vars

(***************************************************************************)
(* Shapes shared by the grouping claims                                    *)
(***************************************************************************)
Grouped == pc \in {"sort", "table", "done"}
Sorted == pc \in {"table", "done"}

\* The places (group, index) of a grouping
Places(dict) == {p \in (1..Len(dict)) \X (1..MaxTasks + 1) : p[2] <= Len(dict[p[1]].items)}

\* Fetch position of the earliest record of a group
FirstFetched(group) ==
    LET ids == {group.items[k].id : k \in 1..Len(group.items)}
    IN CHOOSE i \in ids : \A j \in ids : i <= j

(***************************************************************************)
(* C1: the groups built from the fetched records partition them: each      *)
(* fetched record is at exactly one place of exactly one group, the groups *)
(* hold nothing else, two records share a group iff they have the same     *)
(* owner, and the keys are in the order in which the owners are first met  *)
(* in the fetched sequence.                                                *)
(***************************************************************************)
C1_GroupingIsPartition ==
    Grouped =>
        LET D == tasks_by_designer
        IN /\ \A i \in 1..Len(tasks) :
                Cardinality({p \in Places(D) : D[p[1]].items[p[2]] = tasks[i]}) = 1
           /\ Cardinality(Places(D)) = Len(tasks)
           /\ \A g, h \in 1..Len(D) : g # h => D[g].key # D[h].key
           /\ \A p, q \in Places(D) :
                (p[1] = q[1]) <=>
                    (Designer(D[p[1]].items[p[2]].resource_id) =
                     Designer(D[q[1]].items[q[2]].resource_id))
           /\ \A g, h \in 1..Len(D) :
                g < h => FirstFetched(D[g]) < FirstFetched(D[h])

\* Three records, two owners, the second owner's record fetched in the middle
C1_Witness ==
    /\ pc = "sort"
    /\ Len(tasks) = 3
    /\ Len(tasks_by_designer) = 2
    /\ Len(tasks_by_designer[1].items) = 2
    /\ tasks_by_designer[2].items[1].id = 2

(***************************************************************************)
(* C2 as stated: after the sort every group is in stable ascending order   *)
(* of the parsed start, a missing or unparsable start counting as the      *)
(* epoch minimum.                                                          *)
(***************************************************************************)
StartOrEpoch(t) ==
    IF t.start_datetime.kind = "str" /\ Parses(t.start_datetime.str)
    THEN Ordinal(t.start_datetime.str)
    ELSE Ordinal(EpochStr)

C2_BadStartSortsFirst ==
    Sorted =>
        \A g \in 1..Len(tasks_by_designer) :
            LET items == tasks_by_designer[g].items
            IN \A k, l \in 1..Len(items) :
                k < l =>
                    \/ Before(StartOrEpoch(items[k]), StartOrEpoch(items[l]))
                    \/ /\ StartOrEpoch(items[k]) = StartOrEpoch(items[l])
                       /\ items[k].id < items[l].id

(***************************************************************************)
(* C2 amended: after the sort a group whose records all have a parsable    *)
(* start or no start key at all is in stable ascending order of the start, *)
(* a record without the key counting as the epoch; a group holding a       *)
(* record whose start is present but is not a parsable string (the         *)
(* backend's False, or malformed text) is left in fetch order.  Either way *)
(* the group keeps exactly the records of its owner.                       *)
(***************************************************************************)
StartUnusable(t) ==
    \/ t.start_datetime.kind = "false"
    \/ t.start_datetime.kind = "str" /\ ~Parses(t.start_datetime.str)

C2_SortedOrLeftInFetchOrder ==
    Sorted =>
        \A g \in 1..Len(tasks_by_designer) :
            LET items == tasks_by_designer[g].items
                key == tasks_by_designer[g].key
            IN /\ {items[k].id : k \in 1..Len(items)} =
                    {i \in 1..Len(tasks) : Designer(tasks[i].resource_id) = key}
               /\ \A k \in 1..Len(items) : items[k] = tasks[items[k].id]
               /\ IF \E k \in 1..Len(items) : StartUnusable(items[k])
                  THEN \A k, l \in 1..Len(items) : k < l => items[k].id < items[l].id
                  ELSE \A k, l \in 1..Len(items) :
                          k < l =>
                              \/ Before(StartOrEpoch(items[k]), StartOrEpoch(items[l]))
                              \/ /\ StartOrEpoch(items[k]) = StartOrEpoch(items[l])
                                 /\ items[k].id < items[l].id

\* A record without a start key, fetched last, leads its group, and the two
\* records with equal starts follow in fetch order
C2_Witness ==
    /\ pc = "done"
    /\ \E g \in 1..Len(tasks_by_designer) :
          LET items == tasks_by_designer[g].items
          IN /\ Len(items) = 3
             /\ items[1].start_datetime = DtAbsent
             /\ items[1].id = 3
             /\ items[2].start_datetime.kind = "str"
             /\ items[2].start_datetime = items[3].start_datetime
             /\ items[2].id = 1

(***************************************************************************)
(* C6: the key of a schedule group is the owner's label when the label is  *)
(* non-empty and "Unassigned" otherwise, so no key is the empty string.    *)
(***************************************************************************)
C6_EmptyLabelIsUnassigned ==
    Grouped =>
        \A g \in 1..Len(tasks_by_designer) :
            /\ tasks_by_designer[g].key # ""
            /\ \A k \in 1..Len(tasks_by_designer[g].items) :
                  LET label == get_field_name(tasks_by_designer[g].items[k].resource_id)
                  IN tasks_by_designer[g].key =
                        IF label # "" THEN label ELSE "Unassigned"

(***************************************************************************)
(* format_datetime_range, lines 56-75                                      *)
(***************************************************************************)
ShiftHours == 3

\* dt + timedelta(hours=ShiftHours) as calendar fields; the year may pass 9999
Shifted(str) ==
    IF str.h + ShiftHours < 24 THEN [str EXCEPT !.h = @ + ShiftHours]
    ELSE LET h2 == str.h + ShiftHours - 24
         IN IF str.d < DaysInMonth(str.y, str.mo)
            THEN [str EXCEPT !.h = h2, !.d = @ + 1]
            ELSE IF str.mo < 12
            THEN [str EXCEPT !.h = h2, !.d = 1, !.mo = @ + 1]
            ELSE [str EXCEPT !.h = h2, !.d = 1, !.mo = 1, !.y = @ + 1]

\* strptime raises ValueError, the addition raises OverflowError past year 9999
ShiftRaises(str) == ~Parses(str) \/ Shifted(str).y > 9999

\* A formatted range: the start text, whether " -> " and the end text follow
Range(start, arrow, end) == [start |-> start, arrow |-> arrow, end |-> end]
NoRange == Range(EmptyStr, FALSE, EmptyStr)

\* One try block covers both timestamps: a failure on either restores both
format_datetime_range(start_dt_str, end_dt_str) ==
    LET raised == \/ start_dt_str.form # "empty" /\ ShiftRaises(start_dt_str)
                  \/ end_dt_str.form # "empty" /\ ShiftRaises(end_dt_str)
        start_fmt == IF raised \/ start_dt_str.form = "empty"
                     THEN start_dt_str ELSE Shifted(start_dt_str)
        end_fmt == IF raised \/ end_dt_str.form = "empty"
                   THEN end_dt_str ELSE Shifted(end_dt_str)
    IN IF end_fmt.form = "empty" THEN Range(start_fmt, FALSE, EmptyStr)
       ELSE Range(start_fmt, TRUE, end_fmt)

(***************************************************************************)
(* build_morning_text, lines 136-171                                       *)
(* A line is its tag and the value formatted after it: a string, a number, *)
(* a range, or the text form of a whole list.                              *)
(***************************************************************************)
TextLine(tag, str) == [tag |-> tag, s |-> str, n |-> 0, range |-> NoRange, raw |-> RelAbsent]
NumLine(tag, n) == [tag |-> tag, s |-> "", n |-> n, range |-> NoRange, raw |-> RelAbsent]
RangeLine(tag, range) == [tag |-> tag, s |-> "", n |-> 0, range |-> range, raw |-> RelAbsent]
ListLine(tag, list) == [tag |-> tag, s |-> "", n |-> 0, range |-> NoRange, raw |-> list]

\* bool(v) of a field value
FieldTruthy(v) ==
    \/ v.kind \in {"list1", "list2"}
    \/ v.kind = "str" /\ v.label # ""

\* task.get('start_datetime') or ""
StrOrEmpty(dt) == IF dt.kind = "str" THEN dt.str ELSE EmptyStr

\* lines 139-141
RoleLines(t) ==
    LET role_name == get_field_name(t.role_id)
    IN IF role_name # "" THEN <<TextLine("Role", role_name)>> ELSE <<>>

\* lines 153-164
DetailLines(sub_val, map) ==
    LET sub_id == IF sub_val.kind \in {"list1", "list2"} THEN sub_val.id ELSE 0
    IN IF sub_id # 0 /\ sub_id \in DOMAIN map
       THEN LET sub_rec == map[sub_id]
                sc == IF sub_rec.sc.kind \in {"list0", "list1", "list2"}
                      THEN RelStr(get_field_name(sub_rec.sc))
                      ELSE sub_rec.sc
            IN (IF FieldTruthy(sc) THEN <<TextLine("Service Category", sc.label)>> ELSE <<>>)
               \o (IF sub_rec.units # 0 THEN <<NumLine("No. of Units", sub_rec.units)>> ELSE <<>>)
       ELSE <<>>

\* Sub-task lines that do not look at the parent task
ParentLinesSubAlways(t, map) ==
    LET parent_name == get_field_name(t.x_studio_parent_task)
        sub_name == get_field_name(t.x_studio_sub_task_1)
    IN <<TextLine("Parent Task",
                  IF parent_name = "" THEN "Missing Parent Task" ELSE parent_name)>>
       \o (IF sub_name # ""
           THEN <<TextLine("Sub Task", sub_name)>> \o DetailLines(t.x_studio_sub_task_1, map)
           ELSE <<>>)

\* lines 143-164
ParentLines(t, map) ==
    LET parent_name == get_field_name(t.x_studio_parent_task)
        sub_name == get_field_name(t.x_studio_sub_task_1)
    IN IF parent_name = "" THEN <<TextLine("Parent Task", "Missing Parent Task")>>
       ELSE <<TextLine("Parent Task", parent_name)>>
            \o (IF sub_name # ""
                THEN <<TextLine("Sub Task", sub_name)>>
                     \o DetailLines(t.x_studio_sub_task_1, map)
                ELSE <<>>)

\* lines 166-170
DateLines(t) ==
    LET drange == format_datetime_range(StrOrEmpty(t.start_datetime),
                                        StrOrEmpty(t.end_datetime))
    IN IF drange # NoRange THEN <<RangeLine("Date Range", drange)>> ELSE <<>>

build_morning_text(t, map) == RoleLines(t) \o ParentLines(t, map) \o DateLines(t)

(***************************************************************************)
(* Rendering one schedule record                                           *)
(***************************************************************************)
RoleValues == {RelFalse, Rel(1, "Designer"), Rel(2, "")}
ParentValues == {RelFalse, RelAbsent, Rel(10, "Website"), Rel(11, "")}
SubValues == {RelFalse, Rel(7, "Banner"), Rel(7, ""), Rel(8, "Logo"), RelList1(7)}
DateValues ==
    {DtFalse, DtAbsent, DtStr(TextStr),
     DtStr(Ts(2024, 1, 1, 0, 0, 0)),
     DtStr(Ts(2024, 2, 29, 22, 30, 0)),
     DtStr(Ts(2023, 12, 31, 23, 59, 59)),
     DtStr(Ts(2023, 2, 29, 9, 0, 0)),
     DtStr(Ts(9999, 12, 31, 21, 0, 0))}
CategoryValues == {RelAbsent, RelFalse, RelStr("Branding"), Rel(3, "Print"), Rel(4, "")}
UnitValues == {0, 12}
SubtaskMaps ==
    {<<>>} \cup {7 :> [sc |-> c, units |-> u] : c \in CategoryValues, u \in UnitValues}

InitRender ==
    /\ pc = "render"
    /\ task \in [role_id : RoleValues, x_studio_parent_task : ParentValues,
                 x_studio_sub_task_1 : SubValues,
                 start_datetime : DateValues, end_datetime : DateValues]
    /\ subtask_map \in SubtaskMaps
    /\ lines = <<>>
    /\ selected_favs = Idle /\ fav_domains = Idle
    /\ combined_fav_domain = Idle /\ final_domain = Idle
    /\ tasks = Idle /\ tasks_by_designer = Idle
    /\ recs = Idle /\ allowed_emp_names = Idle /\ recs_by_designer = Idle
    /\ rec = Idle

BuildMorningText ==
    /\ pc = "render"
    /\ lines' = build_morning_text(task, subtask_map)
    /\ pc' = "rendered"
    /\ UNCHANGED <<task, subtask_map, filterVars, scheduleVars, recapVars>>

NextRender == BuildMorningText

SpecRender == InitRender /\ [][NextRender]_vars

(***************************************************************************)
(* C3: build_morning_text emits its lines in the order Role, Parent Task,  *)
(* Sub Task, Service Category, No. of Units, Date Range, each at most      *)
(* once; exactly one Parent Task line, reading "Missing Parent Task" when  *)
(* no parent label resolves; the three sub-task lines only under a parent  *)
(* label; and no line whose source value is empty or absent.               *)
(***************************************************************************)
TagRank(tag) ==
    CASE tag = "Role" -> 1
      [] tag = "Parent Task" -> 2
      [] tag = "Sub Task" -> 3
      [] tag = "Service Category" -> 4
      [] tag = "No. of Units" -> 5
      [] tag = "Date Range" -> 6

HasLabel(v) == v.kind = "list2" /\ v.label # ""
HasText(dt) == dt.kind = "str" /\ dt.str.form # "empty"
LinesTagged(tag) == {i \in 1..Len(lines) : lines[i].tag = tag}

C3_OnlyPresentFieldsInFixedOrder ==
    pc = "rendered" =>
        LET parent == task.x_studio_parent_task
            sub == task.x_studio_sub_task_1
        IN /\ \A i, j \in 1..Len(lines) :
                i < j => TagRank(lines[i].tag) < TagRank(lines[j].tag)
           /\ Cardinality(LinesTagged("Parent Task")) = 1
           /\ \A i \in LinesTagged("Parent Task") :
                lines[i].s = IF HasLabel(parent) THEN parent.label
                             ELSE "Missing Parent Task"
           /\ \A i \in LinesTagged("Sub Task") \cup LinesTagged("Service Category")
                        \cup LinesTagged("No. of Units") : HasLabel(parent)
           /\ \A i \in LinesTagged("Role") :
                HasLabel(task.role_id) /\ lines[i].s = task.role_id.label
           /\ \A i \in LinesTagged("Sub Task") :
                HasLabel(sub) /\ lines[i].s = sub.label
           /\ \A i \in LinesTagged("Service Category") :
                /\ sub.id \in DOMAIN subtask_map
                /\ LET sc == subtask_map[sub.id].sc
                   IN /\ HasLabel(sc) \/ (sc.kind = "str" /\ sc.label # "")
                      /\ lines[i].s = sc.label
           /\ \A i \in LinesTagged("No. of Units") :
                /\ sub.id \in DOMAIN subtask_map
                /\ subtask_map[sub.id].units # 0
                /\ lines[i].n = subtask_map[sub.id].units
           /\ \A i \in LinesTagged("Date Range") :
                HasText(task.start_datetime) \/ HasText(task.end_datetime)

\* No parent label: the sub task and its details are present in the source
\* but only Role, the placeholder and Date Range are emitted
C3_Witness ==
    /\ pc = "rendered"
    /\ ~HasLabel(task.x_studio_parent_task)
    /\ HasLabel(task.x_studio_sub_task_1)
    /\ task.x_studio_sub_task_1.id \in DOMAIN subtask_map
    /\ [i \in 1..Len(lines) |-> lines[i].tag] = <<"Role", "Parent Task", "Date Range">>
    /\ lines[2].s = "Missing Parent Task"

(***************************************************************************)
(* C7: the Date Range text is the range of the two timestamps each         *)
(* normalized on its own: shifted by three hours when it parses, unchanged *)
(* when it does not; nothing when both are empty, the start alone when the *)
(* end is empty, start -> end otherwise.                                   *)
(***************************************************************************)
ShiftedAlone(str) == IF Parses(str) THEN Shifted(str) ELSE str

RangeOfEach(start, end) ==
    IF ShiftedAlone(end).form = "empty" THEN Range(ShiftedAlone(start), FALSE, EmptyStr)
    ELSE Range(ShiftedAlone(start), TRUE, ShiftedAlone(end))

\* Timestamps whose shifted value is still a calendar date
InCalendar(str) == Parses(str) => Shifted(str).y <= 9999

C7_DateRangeShiftsEachTimestamp ==
    LET start == StrOrEmpty(task.start_datetime)
        end == StrOrEmpty(task.end_datetime)
    IN (pc = "rendered" /\ InCalendar(start) /\ InCalendar(end)) =>
          IF start.form = "empty" /\ end.form = "empty"
          THEN LinesTagged("Date Range") = {}
          ELSE /\ LinesTagged("Date Range") # {}
               /\ \A i \in LinesTagged("Date Range") :
                     lines[i].range = RangeOfEach(start, end)

(***************************************************************************)
(* Recap grouping, lines 378-406                                           *)
(* allowed_emp_names is None (unrestricted) or a set of employee names.    *)
(***************************************************************************)
Unrestricted == [restricted |-> FALSE, names |-> {}]
Restricted(names) == [restricted |-> TRUE, names |-> names]

\* line 390
CreatorName(c_uid) == IF c_uid.kind = "list2" THEN c_uid.label ELSE "Unassigned"

\* A filter that lets every record through
SkippedNever(allowed, designer_name) == FALSE

\* line 391
Skipped(allowed, designer_name) ==
    allowed.restricted /\ designer_name \notin allowed.names

RECURSIVE GroupRecs(_, _, _)
GroupRecs(dict, rs, allowed) ==
    IF rs = <<>> THEN dict
    ELSE LET designer_name == CreatorName(Head(rs).create_uid)
         IN IF Skipped(allowed, designer_name)
            THEN GroupRecs(dict, Tail(rs), allowed)
            ELSE GroupRecs(SetDefaultAppend(dict, designer_name, Head(rs)),
                           Tail(rs), allowed)

\* create_recap_notes_table, lines 258-262: one row per record
RECURSIVE RecapRows(_)
RecapRows(dict) ==
    IF dict = <<>> THEN <<>>
    ELSE [k \in 1..Len(Head(dict).items) |->
             [designer |-> Head(dict).key, id |-> Head(dict).items[k].id]]
         \o RecapRows(Tail(dict))

CreatorValues == {RelFalse, Rel(1, "Alice"), Rel(2, "Bob"), Rel(3, "")}

\* get_employees_from_favorites keeps non-empty names only (line 283)
EmployeeNames == {"Alice", "Bob", "Unassigned"}

FetchedRecs == UNION {[1..n -> CreatorValues] : n \in 1..MaxRecs}

InitRecap ==
    /\ pc = "group_recs"
    /\ \E f \in FetchedRecs : recs = [i \in 1..Len(f) |-> [id |-> i, create_uid |-> f[i]]]
    /\ allowed_emp_names \in {Unrestricted} \cup {Restricted(n) : n \in SUBSET EmployeeNames}
    /\ recs_by_designer = <<>>
    /\ lines = <<>>
    /\ rec = Idle
    /\ selected_favs = Idle /\ fav_domains = Idle
    /\ combined_fav_domain = Idle /\ final_domain = Idle
    /\ tasks = Idle /\ tasks_by_designer = Idle
    /\ task = Idle /\ subtask_map = Idle

\* lines 387-394 and 403-404
GroupByCreator ==
    /\ pc = "group_recs"
    /\ LET grouped == GroupRecs(<<>>, recs, allowed_emp_names)
       IN /\ recs_by_designer' = grouped
          /\ pc' = IF grouped # <<>> THEN "document" ELSE "no_match"
    /\ UNCHANGED <<recs, allowed_emp_names, rec, lines, task, subtask_map>>
    /\ UNCHANGED <<filterVars, scheduleVars>>

\* lines 395-396
CreateRecapTable ==
    /\ pc = "document"
    /\ lines' = RecapRows(recs_by_designer)
    /\ pc' = "download"
    /\ UNCHANGED <<recapVars, task, subtask_map, filterVars, scheduleVars>>

NextRecap == GroupByCreator \/ CreateRecapTable

SpecRecap == InitRecap /\ [][NextRecap]_vars

(***************************************************************************)
(* C4: with an allow-set, a recap record is in the grouping iff its        *)
(* creator key is in the set, the key being the creator's label when the   *)
(* creator is an (id, label) pair and "Unassigned" otherwise; without one  *)
(* every record is in exactly one group.  A record is never at two places, *)
(* a group is keyed by its records' creator key, and the records of a      *)
(* group are in fetch order.                                               *)
(***************************************************************************)
RecapGrouped == pc \in {"document", "no_match", "download"}

CreatorKey(r) ==
    IF r.create_uid.kind = "list2" THEN r.create_uid.label ELSE "Unassigned"

RecapPlaces(dict) ==
    {p \in (1..Len(dict)) \X (1..MaxRecs + 1) : p[2] <= Len(dict[p[1]].items)}

C4_RecapFilteredByAllowedNames ==
    RecapGrouped =>
        LET D == recs_by_designer
            kept == {i \in 1..Len(recs) :
                        allowed_emp_names.restricted =>
                            CreatorKey(recs[i]) \in allowed_emp_names.names}
        IN /\ \A i \in 1..Len(recs) :
                LET at == {p \in RecapPlaces(D) : D[p[1]].items[p[2]] = recs[i]}
                IN /\ Cardinality(at) = IF i \in kept THEN 1 ELSE 0
                   /\ \A p \in at : D[p[1]].key = CreatorKey(recs[i])
           /\ Cardinality(RecapPlaces(D)) = Cardinality(kept)
           /\ \A g, h \in 1..Len(D) : g # h => D[g].key # D[h].key
           /\ \A g \in 1..Len(D) :
                \A k, l \in 1..Len(D[g].items) :
                    k < l => D[g].items[k].id < D[g].items[l].id

\* Allow-set {"Alice"}: Bob's record between two of Alice's is in no group
C4_Witness ==
    /\ pc = "document"
    /\ allowed_emp_names = Restricted({"Alice"})
    /\ Len(recs) = 3
    /\ recs[2].create_uid = Rel(2, "Bob")
    /\ Len(recs_by_designer) = 1
    /\ recs_by_designer[1].key = "Alice"
    /\ Len(recs_by_designer[1].items) = 2

(***************************************************************************)
(* build_recap_notes_text, lines 229-249                                   *)
(***************************************************************************)
FieldLine(tag, v) ==
    IF ~FieldTruthy(v) THEN <<>>
    ELSE IF v.kind = "str" THEN <<TextLine(tag, v.label)>>
    ELSE <<ListLine(tag, v)>>

build_recap_notes_text(r) ==
    (IF r.x_studio_parent_task.kind = "list2"
     THEN <<TextLine("Parent Task", r.x_studio_parent_task.label)>> ELSE <<>>)
    \o FieldLine("Sub Task", r.x_studio_subtask)
    \o FieldLine("Shift", r.x_studio_shift)
    \o FieldLine("Recap Category", r.x_studio_recap_cat)
    \o FieldLine("Comment", r.x_studio_designer_summary)
    \o (IF r.create_date.kind = "str" /\ r.create_date.str.form # "empty"
        THEN <<RangeLine("Date & Time", Range(r.create_date.str, FALSE, EmptyStr))>>
        ELSE <<>>)

RecapRecords ==
    [x_studio_parent_task : {RelFalse, Rel(10, "Website")},
     x_studio_subtask : {RelFalse, RelAbsent, RelStr(""), RelStr("Banner"), Rel(7, "Banner")},
     x_studio_shift : {RelFalse, RelStr("Morning")},
     x_studio_recap_cat : {RelFalse, RelStr("Progress")},
     x_studio_designer_summary : {RelFalse, RelStr("Done")},
     create_date : {DtFalse, DtStr(TextStr), DtStr(Ts(2024, 1, 1, 22, 15, 0))}]

InitRecapText ==
    /\ pc = "recap_text"
    /\ rec \in RecapRecords
    /\ lines = <<>>
    /\ recs = Idle /\ allowed_emp_names = Idle /\ recs_by_designer = Idle
    /\ selected_favs = Idle /\ fav_domains = Idle
    /\ combined_fav_domain = Idle /\ final_domain = Idle
    /\ tasks = Idle /\ tasks_by_designer = Idle
    /\ task = Idle /\ subtask_map = Idle

BuildRecapNotesText ==
    /\ pc = "recap_text"
    /\ lines' = build_recap_notes_text(rec)
    /\ pc' = "recap_rendered"
    /\ UNCHANGED <<recapVars, task, subtask_map, filterVars, scheduleVars>>

NextRecapText == BuildRecapNotesText

SpecRecapText == InitRecapText /\ [][NextRecapText]_vars

(***************************************************************************)
(* C8: the recap's sub task line shows the label of an (id, label)         *)
(* reference and the raw string of a plain string, is omitted when the     *)
(* field is absent or empty, and the creation timestamp line shows the     *)
(* stored timestamp with no shift.                                         *)
(***************************************************************************)
C8_RecapSubTaskLabelOrString ==
    pc = "recap_rendered" =>
        LET sub == rec.x_studio_subtask
            subLines == LinesTagged("Sub Task")
        IN /\ IF HasLabel(sub) \/ (sub.kind = "str" /\ sub.label # "")
              THEN /\ Cardinality(subLines) = 1
                   /\ \A i \in subLines : lines[i] = TextLine("Sub Task", sub.label)
              ELSE subLines = {}
           /\ IF HasText(rec.create_date)
              THEN /\ Cardinality(LinesTagged("Date & Time")) = 1
                   /\ \A i \in LinesTagged("Date & Time") :
                         lines[i].range = Range(rec.create_date.str, FALSE, EmptyStr)
              ELSE LinesTagged("Date & Time") = {}

====
